---------------------------- MODULE Spec2Model ----------------------------
(***************************************************************************)
(* Telegram message extraction pipeline:                                   *)
(*   TelegramExtractor.extract_messages  (telegram_extractor.py)           *)
(*   MessageDatabase.insert_messages     (messages_database.py)            *)
(*   extract_all_groups_messages         (main.py)                         *)
(* Time stamps are absolute UTC instants, written as integers.             *)
(***************************************************************************)
EXTENDS Integers, Sequences, FiniteSets, TLC

---------------------------------------------------------------------------
(* Bounds of the model *)

\* messages in the remote history of a source (ids NumMsgs .. 1)
NumMsgs == 4
\* time stamps and window bounds range over 1 .. MaxTime
MaxTime == 3
\* batch_size of the extractor (100 in the source), scaled down
PageSize == 3
\* calls of extract_messages made by the driver in one behaviour
MaxCalls == 3
\* FloodWaitError signals raised by the client during one call
MaxFloods == 1

(* Program constants *)

\* default batch_size of insert_messages
DbBatchSize == 1000
\* rate_limit_delay, 1.5 s, in tenths of a second
RateLimitDelay == 15

Groups == {"g1", "g2"}
Dates == 1..MaxTime
FloodSeconds == {1, 2}

Min(a, b) == IF a < b THEN a ELSE b

---------------------------------------------------------------------------
VARIABLES
    history,        \* the remote history every source serves: newest first, [id, date]
    committed,      \* rows of the table that are durable (committed)
    pending,        \* rows written in the connection's open transaction
    chunks,         \* the chunks that wrote a row, by chunk number (history variable)
    pc,             \* where the driver / extract_messages stands
    call,           \* arguments of the current (or last) extract_messages call
    offset_id,      \* pagination cursor
    all_messages,   \* records collected by the current call
    floods,         \* FloodWaitErrors raised in the current call
    log,            \* requests, pages, inserts and sleeps of the current call
    outcome,        \* how the last call ended
    returned,       \* the list the last call returned
    envFault,       \* the environment made the current call fail (history variable)
    prev,           \* the call before the current one and the store it left
    ncalls,         \* calls made so far
    raw,            \* normalizer input  (used by SpecNorm only)
    rec,            \* normalizer output (used by SpecNorm only)
    enc,            \* the record's structured columns as insert_messages encodes them
    bound,          \* start_date, end_date as given (used by SpecWindow only)
    bound_utc,      \* start_date_utc, end_date_utc (used by SpecWindow only)
    schema          \* tables, indexes and rows of the database file (SpecSchema)

vars == <<history, committed, pending, chunks, pc, call, offset_id, all_messages,
          floods, log, outcome, returned, envFault, prev, ncalls, raw, rec, enc,
          bound, bound_utc, schema>>

dbVars == <<committed, pending, chunks>>
mainVars == <<history, committed, pending, chunks, pc, call, offset_id, all_messages,
              floods, log, outcome, returned, envFault, prev, ncalls>>
\* the variables the driver and extract_messages leave alone in this model
normVars == <<raw, rec, enc, bound, bound_utc, schema>>


---------------------------------------------------------------------------
(* The remote history client (Telethon), as extract_messages uses it *)

\* newest-first histories: ids NumMsgs .. 1, dates non-increasing
Histories ==
    { h \in [1..NumMsgs -> [id : 1..NumMsgs, date : Dates]] :
        /\ \A i \in 1..NumMsgs : h[i].id = NumMsgs + 1 - i
        /\ \A i \in 1..(NumMsgs - 1) : h[i].date >= h[i + 1].date }

\* GetHistoryRequest(offset_id, limit): the `limit` newest messages with an id
\* below offset_id (offset_id = 0: from the most recent message)
FetchPage(h, offset, limit) ==
    LET older == SelectSeq(h, LAMBDA m : offset = 0 \/ m.id < offset)
    IN  SubSeq(older, 1, Min(limit, Len(older)))

---------------------------------------------------------------------------
(* MessageDatabase *)

Row(m, c) == [group_name |-> m.group_name, message_id |-> m.message_id, chunk |-> c]

\* what the connection sees: the durable rows and those of its open transaction
Table(com, pend) == com \o pend

\* PRIMARY KEY (group_name, message_id) without the constraint
KeyConflictNoPrimaryKey(table, m) == FALSE

\* PRIMARY KEY (message_id): the source is no part of the key
KeyConflictOnMessageId(table, m) ==
    \E i \in 1..Len(table) : table[i].message_id = m.message_id

\* PRIMARY KEY (group_name, message_id): a plain INSERT of an existing key fails
KeyConflict(table, m) ==
    \E i \in 1..Len(table) :
        /\ table[i].group_name = m.group_name
        /\ table[i].message_id = m.message_id

\* cur.executemany(INSERT ...): row after row in the open transaction; the first
\* key conflict raises IntegrityError and leaves the rows written before it pending
RECURSIVE ExecuteMany(_, _, _, _)
ExecuteMany(com, pend, batch, c) ==
    IF batch = <<>> THEN [pending |-> pend, raised |-> FALSE]
    ELSE IF KeyConflict(Table(com, pend), Head(batch))
         THEN [pending |-> pend, raised |-> TRUE]
         ELSE ExecuteMany(com, Append(pend, Row(Head(batch), c)), Tail(batch), c)

\* insert_messages: chunks of batch_size, each executemany followed by conn.commit();
\* an exception of executemany propagates with nothing committed or rolled back
RECURSIVE insert_messages(_, _, _, _, _)
insert_messages(com, pend, chs, messages, batch_size) ==
    IF messages = <<>>
    THEN [committed |-> com, pending |-> pend, chunks |-> chs, raised |-> FALSE]
    ELSE LET n     == Min(batch_size, Len(messages))
             batch == SubSeq(messages, 1, n)
             r     == ExecuteMany(com, pend, batch, Len(chs) + 1)
             chs2  == IF Len(r.pending) > Len(pend) THEN Append(chs, batch) ELSE chs
         IN  IF r.raised
             THEN [committed |-> com, pending |-> r.pending, chunks |-> chs2,
                   raised |-> TRUE]
             ELSE insert_messages(Table(com, r.pending), <<>>, chs2,
                                  SubSeq(messages, n + 1, Len(messages)), batch_size)

---------------------------------------------------------------------------
(* extract_messages *)

\* start_date_utc <= msg_utc_date <= end_date_utc, start exclusive
InWindowExclusiveStart(t, start, end) == start < t /\ t <= end

\* start_date_utc <= msg_utc_date <= end_date_utc
InWindow(t, start, end) == start <= t /\ t <= end

\* _process_message, as far as the store's key goes
MessageData(m, group) == [group_name |-> group, message_id |-> m.id]

\* the records of a page come out newest last
RECURSIVE MapProcessReversed(_, _)
MapProcessReversed(msgs, group) ==
    IF msgs = <<>> THEN <<>>
    ELSE MapProcessReversed(Tail(msgs), group) \o <<MessageData(Head(msgs), group)>>

RECURSIVE MapProcess(_, _)
MapProcess(msgs, group) ==
    IF msgs = <<>> THEN <<>>
    ELSE <<MessageData(Head(msgs), group)>> \o MapProcess(Tail(msgs), group)

RECURSIVE Ids(_)
Ids(msgs) == IF msgs = <<>> THEN <<>> ELSE <<Head(msgs).id>> \o Ids(Tail(msgs))

\* entries of the call's log
Ev(kind, cursor, secs, ids, raised) ==
    [ev |-> kind, cursor |-> cursor, secs |-> secs, ids |-> ids, raised |-> raised]
EvRequest(cursor)     == Ev("request", cursor, 0, <<>>, FALSE)
EvFlood(cursor, secs) == Ev("flood", cursor, secs, <<>>, FALSE)
EvSleep(tenths)       == Ev("sleep", 0, tenths, <<>>, FALSE)
EvPage(cursor, ids)   == Ev("page", cursor, 0, ids, FALSE)
EvInsert(ids, raised) == Ev("insert", 0, 0, ids, raised)

NoCall == [group |-> "none", start |-> 0, end |-> 0]

\* the driver calls extractor.extract_messages(group, start, end)
Call(g, s, e) ==
    /\ pc = "idle"
    /\ ncalls < MaxCalls
    /\ pc' = "connect"
    /\ call' = [group |-> g, start |-> s, end |-> e]
    /\ prev' = [call |-> call, outcome |-> outcome, envFault |-> envFault,
                committed |-> committed, pending |-> pending]
    /\ ncalls' = ncalls + 1
    /\ outcome' = "running"
    /\ returned' = <<>>
    /\ envFault' = FALSE
    /\ floods' = 0
    /\ log' = <<>>
    /\ UNCHANGED <<history, dbVars, offset_id, all_messages, normVars>>

\* client = await self.connect_client: started and authorized
ConnectOk ==
    /\ pc = "connect"
    /\ pc' = "resolve"
    /\ UNCHANGED <<history, dbVars, call, offset_id, all_messages, floods, log,
                   outcome, returned, envFault, prev, ncalls, normVars>>

\* connect_client raises (not authorized, or client.start fails): the await stands
\* before the try block, so the exception leaves extract_messages
ConnectFail ==
    /\ pc = "connect"
    /\ pc' = "raised"
    /\ outcome' = "raised"
    /\ envFault' = TRUE
    /\ UNCHANGED <<history, dbVars, call, offset_id, all_messages, floods, log,
                   returned, prev, ncalls, normVars>>

\* entity = await client.get_entity(group); offset_id = 0; all_messages = []
ResolveOk ==
    /\ pc = "resolve"
    /\ pc' = "fetch"
    /\ offset_id' = 0
    /\ all_messages' = <<>>
    /\ UNCHANGED <<history, dbVars, call, floods, log, outcome, returned, envFault,
                   prev, ncalls, normVars>>

\* the outer handler returns what was collected so far
ReturnPartial(newlog) ==
    /\ pc' = "idle"
    /\ outcome' = "fatal"
    /\ returned' = all_messages
    /\ offset_id' = 0
    /\ all_messages' = <<>>
    /\ log' = newlog

\* the outer `except Exception`: log the error and return []
ReturnEmpty(newlog) ==
    /\ pc' = "idle"
    /\ outcome' = "fatal"
    /\ returned' = <<>>
    /\ offset_id' = 0
    /\ all_messages' = <<>>
    /\ log' = newlog

\* get_entity raises (unknown source, transport error)
ResolveFail ==
    /\ pc = "resolve"
    /\ ReturnEmpty(log)
    /\ envFault' = TRUE
    /\ UNCHANGED <<history, dbVars, call, floods, prev, ncalls, normVars>>

\* get_entity raises FloodWaitError: it is outside the inner try, so the outer
\* `except Exception` takes it
ResolveFlood(secs) ==
    /\ pc = "resolve"
    /\ floods < MaxFloods
    /\ floods' = floods + 1
    /\ ReturnEmpty(Append(log, Ev("flood_entity", 0, secs, <<>>, FALSE)))
    /\ envFault' = TRUE
    /\ UNCHANGED <<history, dbVars, call, prev, ncalls, normVars>>

\* the page request raises FloodWaitError, and the wait is the fixed delay and the
\* cursor moves on
FetchFloodSkips(secs) ==
    /\ pc = "fetch"
    /\ floods < MaxFloods
    /\ floods' = floods + 1
    /\ offset_id' = IF offset_id = 0 THEN NumMsgs ELSE offset_id - 1
    /\ log' = log \o <<EvRequest(offset_id), EvFlood(offset_id, secs),
                       EvSleep(RateLimitDelay)>>
    /\ UNCHANGED <<history, dbVars, pc, call, all_messages, outcome, returned,
                   envFault, prev, ncalls, normVars>>

\* the page request raises FloodWaitError: _handle_rate_limit sleeps e.seconds,
\* then `continue` re-enters the loop with offset_id as it was
FetchFlood(secs) ==
    /\ pc = "fetch"
    /\ floods < MaxFloods
    /\ floods' = floods + 1
    /\ log' = log \o <<EvRequest(offset_id), EvFlood(offset_id, secs),
                       EvSleep(10 * secs)>>
    /\ UNCHANGED <<history, dbVars, pc, call, offset_id, all_messages, outcome,
                   returned, envFault, prev, ncalls, normVars>>

\* the page request raises another error (transport)
FetchFail ==
    /\ pc = "fetch"
    /\ ReturnEmpty(Append(log, EvRequest(offset_id)))
    /\ envFault' = TRUE
    /\ UNCHANGED <<history, dbVars, call, floods, prev, ncalls, normVars>>

\* the loop also stops on a page whose oldest message is dated start
StopsLoopAtStart(last_date, start) == last_date <= start

\* `if last_msg_utc_date < start_date_utc: break`
StopsLoop(last_date, start) == last_date < start

\* the page request succeeds: filter, process, insert, termination test, advance
FetchOk ==
    /\ pc = "fetch"
    /\ LET page  == FetchPage(history, offset_id, PageSize)
           log1  == log \o <<EvRequest(offset_id), EvPage(offset_id, Ids(page))>>
           valid == SelectSeq(page, LAMBDA m : InWindow(m.date, call.start, call.end))
           processed == MapProcess(valid, call.group)
           all2  == all_messages \o processed
           ins   == insert_messages(committed, pending, chunks, processed, DbBatchSize)
           log2  == IF valid = <<>> THEN log1
                    ELSE Append(log1, EvInsert(Ids(valid), ins.raised))
           last  == page[Len(page)]
       IN  IF page = <<>>
           THEN \* no more messages: break, return all_messages
                /\ pc' = "idle"
                /\ outcome' = "ok"
                /\ returned' = all_messages
                /\ offset_id' = 0
                /\ all_messages' = <<>>
                /\ log' = log1
                /\ UNCHANGED dbVars
           ELSE /\ committed' = ins.committed
                /\ pending' = ins.pending
                /\ chunks' = ins.chunks
                /\ IF ins.raised
                   THEN \* IntegrityError reaches the outer except
                        ReturnEmpty(log2)
                   ELSE IF StopsLoop(last.date, call.start)
                   THEN \* older than start_date: break, return all_messages
                        /\ pc' = "idle"
                        /\ outcome' = "ok"
                        /\ returned' = all2
                        /\ offset_id' = 0
                        /\ all_messages' = <<>>
                        /\ log' = log2
                   ELSE /\ pc' = "fetch"
                        /\ offset_id' = last.id
                        /\ all_messages' = all2
                        /\ log' = Append(log2, EvSleep(RateLimitDelay))
                        /\ UNCHANGED <<outcome, returned>>
    /\ UNCHANGED <<history, call, floods, envFault, prev, ncalls, normVars>>

\* the process is killed during a call; the connection's open transaction is lost,
\* and the program is started again (the constructor's create_table commits nothing)
Abort ==
    /\ pc \in {"connect", "resolve", "fetch"}
    /\ pc' = "idle"
    /\ outcome' = "aborted"
    /\ returned' = <<>>
    /\ pending' = <<>>
    /\ offset_id' = 0
    /\ all_messages' = <<>>
    /\ UNCHANGED <<history, committed, chunks, call, floods, log, envFault, prev,
                   ncalls, normVars>>

\* the program ends (the loop of the driver is over, or an exception left
\* extract_messages and ended asyncio.run); the connection is dropped without a
\* commit, and the program is started again
ProcessExit ==
    /\ \/ pc = "raised"
       \/ pc = "idle" /\ pending # <<>>
    /\ pc' = "idle"
    /\ outcome' = "exited"
    /\ pending' = <<>>
    /\ UNCHANGED <<history, committed, chunks, call, offset_id, all_messages, floods,
                   log, returned, envFault, prev, ncalls, normVars>>

NoRaw == [media |-> "None"]
NoRec == [media_type |-> "unset", media_attributes |-> <<>>]
\* a Python value that json.dumps takes: None, bool, int, str, list, dict (a dict
\* keeps its items in insertion order; a list item has the key "")
JNull == [t |-> "null", b |-> FALSE, n |-> 0, s |-> "", items |-> <<>>]

\* a cell of a TEXT column: SQL NULL or a string
SqlNull == [null |-> TRUE, text |-> ""]
SqlText(str) == [null |-> FALSE, text |-> str]

\* no value has been encoded yet
NoEnc == [set |-> FALSE, value |-> JNull, stored |-> SqlNull]
\* a datetime: its civil fields, and its utcoffset in seconds when it is aware
Dt(aware, offset, y, mo, d, h, mi, sec) ==
    [aware |-> aware, offset |-> offset, y |-> y, mo |-> mo, d |-> d,
     h |-> h, mi |-> mi, s |-> sec]
NoDate == Dt(FALSE, 0, 1970, 1, 1, 0, 0, 0)

\* extract_messages has not been given its bounds yet
NoBound == [set |-> FALSE, start |-> NoDate, end |-> NoDate]
NoBoundUtc == [set |-> FALSE, start |-> NoDate, end |-> NoDate,
               compared |-> FALSE, msg |-> NoDate, valid |-> FALSE]
\* the schema of the database file: its tables (columns, primary key, rows) and
\* its indexes, which are named per database, not per table; a row gives a value
\* to each column, 0 standing for NULL
MaxRows == 2
TableNames == {"groups_messages", "messages", "archive"}
MessageColumns ==
    <<"group_name", "message_id", "utc_date", "local_date", "text", "sender_id",
      "reply_to_msg_id", "forwarded_from", "forward_count", "media_type",
      "media_attributes", "entities", "views", "reactions", "hour", "day_of_week",
      "month", "week_of_year", "word_count", "emoji_count">>
NoTable == [exists |-> FALSE, columns |-> <<>>, primary_key |-> <<>>, rows |-> <<>>]
EmptyDatabase == [tables |-> [t \in TableNames |-> NoTable], indexes |-> {}]

\* CREATE TABLE IF NOT EXISTS t (...)
CreateTableIfNotExists(db, t) ==
    IF db.tables[t].exists THEN db
    ELSE [db EXCEPT !.tables[t] =
             [exists |-> TRUE, columns |-> MessageColumns,
              primary_key |-> <<"group_name", "message_id">>, rows |-> <<>>]]

\* CREATE INDEX IF NOT EXISTS name ON t (column): nothing is done when an index
\* of that name exists, on whatever table
CreateIndexIfNotExists(db, name, t, column) ==
    IF \E i \in db.indexes : i.name = name THEN db
    ELSE [db EXCEPT !.indexes = @ \cup {[name |-> name, table |-> t, column |-> column]}]

\* MessageDatabase.create_table(table_name)
create_table(db, table_name) ==
    CreateIndexIfNotExists(CreateTableIfNotExists(db, table_name),
                           "idx_messages_local_date", table_name, "local_date")

Range(seq) == { seq[i] : i \in 1..Len(seq) }

\* columns a migration may ask for: one the table has, one it has not
ColumnNames == {"group_name", "language"}

\* ALTER TABLE t ADD COLUMN c: the rows get NULL in the new column; an error when
\* the table is missing or has the column
AlterTableAddColumn(db, t, c) ==
    IF ~db.tables[t].exists \/ c \in Range(db.tables[t].columns)
    THEN [db |-> db, raised |-> TRUE]
    ELSE [db |-> [db EXCEPT
                    !.tables[t].columns = Append(@, c),
                    !.tables[t].rows =
                        [i \in 1..Len(@) |->
                            [x \in (DOMAIN @[i]) \cup {c} |-> IF x = c THEN 0 ELSE @[i][x]]]],
          raised |-> FALSE]

\* the column is added without looking at the table
AddColumnUnchecked(db, table_name, column_name) ==
    AlterTableAddColumn(db, table_name, column_name)

\* MessageDatabase.add_column_if_not_exists(table_name, column_name, definition):
\* PRAGMA table_info lists the columns (none for a missing table)
add_column_if_not_exists(db, table_name, column_name) ==
    LET columns == db.tables[table_name].columns
    IN  IF column_name \notin Range(columns)
        THEN AlterTableAddColumn(db, table_name, column_name)
        ELSE [db |-> db, raised |-> FALSE]

\* the last schema operation: its table and column, whether the table existed,
\* whether it raised, the database before it
NoOp ==
    [op |-> "none", table |-> "none", column |-> "none", existed |-> FALSE,
     raised |-> FALSE, before |-> EmptyDatabase]

\* a database file on which nothing was created yet
NoSchema == [db |-> EmptyDatabase, last |-> NoOp]

\* TelegramExtractor(table_name='groups_messages'): the constructor creates its table
Constructed == [db |-> create_table(EmptyDatabase, "groups_messages"), last |-> NoOp]

Init ==
    /\ history \in Histories
    /\ committed = <<>>
    /\ pending = <<>>
    /\ chunks = <<>>
    /\ pc = "idle"
    /\ call = NoCall
    /\ offset_id = 0
    /\ all_messages = <<>>
    /\ floods = 0
    /\ log = <<>>
    /\ outcome = "none"
    /\ returned = <<>>
    /\ envFault = FALSE
    /\ prev = [call |-> NoCall, outcome |-> "none", envFault |-> FALSE,
               committed |-> <<>>, pending |-> <<>>]
    /\ ncalls = 0
    /\ raw = NoRaw
    /\ rec = NoRec
    /\ enc = NoEnc
    /\ bound = NoBound
    /\ bound_utc = NoBoundUtc
    /\ schema = Constructed

Windows == { w \in Dates \X Dates : w[1] <= w[2] }

Next ==
    \/ \E g \in Groups, w \in Windows : Call(g, w[1], w[2])
    \/ ConnectOk
    \/ ConnectFail
    \/ ResolveOk
    \/ ResolveFail
    \/ \E s \in FloodSeconds : ResolveFlood(s)
    \/ \E s \in FloodSeconds : FetchFlood(s)
    \/ FetchFail
    \/ FetchOk
    \/ Abort
    \/ ProcessExit

Spec == Init /\ [][Next]_vars

\* one call of extract_messages that is left to run: no process kill, and what
\* the event loop resumes does return when the client does not fail
InCall == pc \in {"connect", "resolve", "fetch"}

NextCall ==
    \/ \E g \in Groups, w \in Windows : ncalls = 0 /\ Call(g, w[1], w[2])
    \/ ConnectOk
    \/ ConnectFail
    \/ ResolveOk
    \/ ResolveFail
    \/ \E s \in FloodSeconds : ResolveFlood(s)
    \/ \E s \in FloodSeconds : FetchFlood(s)
    \/ FetchFail
    \/ FetchOk

SpecCall ==
    /\ Init
    /\ [][NextCall]_vars
    /\ WF_vars(ConnectOk)
    /\ WF_vars(ResolveOk)
    /\ WF_vars(FetchOk)


---------------------------------------------------------------------------
(* Properties of extraction and storage *)

DateOf(id) == history[NumMsgs + 1 - id].date

Stored(rows, g, id) ==
    \E i \in 1..Len(rows) : rows[i].group_name = g /\ rows[i].message_id = id

Returned(g, id) ==
    \E j \in 1..Len(returned) : returned[j] = [group_name |-> g, message_id |-> id]

Finished == pc = "idle" /\ outcome \in {"ok", "fatal"}

\* C1: after a call that completed without a fatal error, a message of the source
\* is in the returned list and durably stored exactly if start <= t <= end, both
\* ends inclusive.
C1_WindowCorrectness ==
    (pc = "idle" /\ outcome = "ok") =>
        \A i \in 1..Len(history) :
            LET m == history[i] IN
            (Returned(call.group, m.id) /\ Stored(committed, call.group, m.id))
                <=> (call.start <= m.date /\ m.date <= call.end)

\* a completed call whose history has messages on both bounds and on both sides
C1_Witness ==
    /\ pc = "idle" /\ outcome = "ok" /\ returned # <<>>
    /\ \E i \in 1..Len(history) : history[i].date < call.start
    /\ \E i \in 1..Len(history) : history[i].date > call.end
    /\ \E i \in 1..Len(history) : history[i].date = call.start
    /\ \E i \in 1..Len(history) : history[i].date = call.end

SecondRun ==
    /\ pc \in {"idle", "raised"}
    /\ outcome \in {"ok", "fatal", "raised"}
    /\ prev.outcome = "ok" \/ (prev.outcome = "fatal" /\ ~prev.envFault)
    /\ prev.call = call

\* C2: a second extraction of the same source and window, after one that ran to
\* its end (no fault of the environment), leaves the table with exactly the rows
\* the first left: none added, removed or duplicated.
C2_SecondRunSameRows ==
    SecondRun =>
        /\ Table(committed, pending) = Table(prev.committed, prev.pending)
        /\ committed = prev.committed

\* the second run reached an insert of rows the first run had stored
C2_Witness ==
    /\ SecondRun
    /\ prev.outcome = "ok"
    /\ committed # <<>>
    /\ \E i \in 1..Len(log) : log[i].ev = "insert" /\ Len(log[i].ids) >= 2

\* C3: insert_messages on a batch with an existing key completes without raising
\* (stated of the code: no insert of the log raised).
C3_DuplicateKeyNeverRaises ==
    \A i \in 1..Len(log) : log[i].ev = "insert" => ~log[i].raised

\* C4: no two rows of the table share (group_name, message_id), pending rows
\* included.
C4_UniqueKeys ==
    LET t == Table(committed, pending) IN
    \A i, j \in 1..Len(t) :
        (t[i].group_name = t[j].group_name /\ t[i].message_id = t[j].message_id)
            => i = j

\* an insert met an existing key while the table held rows of both sources
C4_Witness ==
    /\ \E i \in 1..Len(log) : log[i].ev = "insert" /\ log[i].raised
    /\ \E i, j \in 1..Len(committed) :
          committed[i].group_name # committed[j].group_name
    /\ pending # <<>>

Count(seq, x) == Cardinality({ i \in 1..Len(seq) : seq[i] = x })

\* C5: a FloodWaitError of the page request for cursor C is followed by a sleep of
\* the signalled seconds and then by a request with the same cursor C, with no
\* insert on the failed attempt; no message is inserted twice, and a call that
\* completes returns every message of the window exactly once.
C5_RateLimitReplay ==
    /\ \A i \in 1..Len(log) :
          log[i].ev = "flood" =>
              /\ i >= 2 /\ log[i - 1] = EvRequest(log[i].cursor)
              /\ i + 1 <= Len(log) /\ log[i + 1] = EvSleep(10 * log[i].secs)
              /\ (i + 2 <= Len(log) => log[i + 2] = EvRequest(log[i].cursor))
              /\ (pc = "fetch" /\ i + 1 = Len(log) => offset_id = log[i].cursor)
    /\ \A i, j \in 1..Len(log) :
          (log[i].ev = "insert" /\ log[j].ev = "insert" /\ i # j) =>
              \A a \in 1..Len(log[i].ids), b \in 1..Len(log[j].ids) :
                  log[i].ids[a] # log[j].ids[b]
    /\ (pc = "idle" /\ outcome = "ok") =>
          \A k \in 1..Len(history) :
              Count(returned, [group_name |-> call.group, message_id |-> history[k].id])
                  = IF call.start <= history[k].date /\ history[k].date <= call.end
                    THEN 1 ELSE 0

\* a completed call whose second page was rate limited and then inserted
C5_Witness ==
    /\ pc = "idle" /\ outcome = "ok"
    /\ \E i, j \in 1..Len(log) :
          /\ log[i].ev = "flood" /\ log[i].cursor # 0
          /\ j > i /\ log[j].ev = "insert" /\ ~log[j].raised

\* C6: when the last message of a fetched page is older than start, the call
\* returns normally, the in-range messages of that page are stored, and no further
\* request is issued.
C6_StopsAfterStraddlingPage ==
    \A i \in 1..Len(log) :
        (/\ log[i].ev = "page" /\ log[i].ids # <<>>
         /\ DateOf(log[i].ids[Len(log[i].ids)]) < call.start
         /\ outcome \in {"ok", "fatal"})
        => /\ \A j \in (i + 1)..Len(log) : log[j].ev # "request"
           /\ outcome = "ok"
           /\ \A a \in 1..Len(log[i].ids) :
                 (call.start <= DateOf(log[i].ids[a]) /\ DateOf(log[i].ids[a]) <= call.end)
                     => Stored(committed, call.group, log[i].ids[a])

\* C7: extract_messages never raises to its caller.
C7_NeverRaises == pc # "raised"

SomeNotAllStored(rows) ==
    /\ \E i \in 1..Len(history) :
          /\ call.start <= history[i].date /\ history[i].date <= call.end
          /\ Stored(rows, call.group, history[i].id)
    /\ \E i \in 1..Len(history) :
          /\ call.start <= history[i].date /\ history[i].date <= call.end
          /\ ~Stored(rows, call.group, history[i].id)

\* C8: after a run that stopped with only some messages of the window stored, a
\* later run over the same source and window, itself not failed by the
\* environment, ends with every message of the window stored.
C8_Resumable ==
    (/\ Finished /\ ~envFault
     /\ prev.call = call
     /\ prev.outcome \in {"fatal", "aborted"}
     /\ SomeNotAllStored(prev.committed))
    => \A i \in 1..Len(history) :
          (call.start <= history[i].date /\ history[i].date <= call.end)
              => Stored(committed, call.group, history[i].id)

\* C9: in every durable state a chunk handed to the store is stored as a whole or
\* not at all: if a row written by the chunk is durable, every record of the chunk
\* is in the durable table.
C9_ChunkAtomic ==
    \A c \in 1..Len(chunks) :
        (\E i \in 1..Len(committed) : committed[i].chunk = c)
            => \A k \in 1..Len(chunks[c]) :
                  Stored(committed, chunks[c][k].group_name, chunks[c][k].message_id)


---------------------------------------------------------------------------
(* Time: the proleptic Gregorian calendar of datetime and the zone Asia/Jerusalem *)

\* days since 1970-01-01 of a civil date
DaysFromCivil(y, m, d) ==
    LET yy  == IF m <= 2 THEN y - 1 ELSE y
        era == yy \div 400
        yoe == yy - era * 400
        doy == (153 * (IF m > 2 THEN m - 3 ELSE m + 9) + 2) \div 5 + d - 1
        doe == yoe * 365 + yoe \div 4 - yoe \div 100 + doy
    IN  era * 146097 + doe - 719468

\* the civil date of a day number
CivilFromDays(z) ==
    LET zz  == z + 719468
        era == zz \div 146097
        doe == zz - era * 146097
        yoe == (doe - doe \div 1460 + doe \div 36524 - doe \div 146096) \div 365
        doy == doe - (365 * yoe + yoe \div 4 - yoe \div 100)
        mp  == (5 * doy + 2) \div 153
        m   == IF mp < 10 THEN mp + 3 ELSE mp - 9
    IN  [y |-> yoe + era * 400 + (IF m <= 2 THEN 1 ELSE 0), mo |-> m,
         d |-> doy - (153 * mp + 2) \div 5 + 1]

\* date.weekday(): Monday is 0, Sunday is 6 (1970-01-01 was a Thursday)
Weekday(days) == (days + 3) % 7

\* the wall clock of a datetime, in seconds since 1970-01-01 00:00:00 of its own
\* clock, and the datetime of such a count
Seconds(dt) == DaysFromCivil(dt.y, dt.mo, dt.d) * 86400 + dt.h * 3600 + dt.mi * 60 + dt.s
DateTime(aware, offset, secs) ==
    LET c == CivilFromDays(secs \div 86400)
        r == secs % 86400
    IN  Dt(aware, offset, c.y, c.mo, c.d, r \div 3600, (r % 3600) \div 60, r % 60)

\* the absolute instant of an aware datetime, in seconds since the epoch
Instant(dt) == Seconds(dt) - dt.offset

\* Asia/Jerusalem since 2013: UTC+2, and UTC+3 from the Friday before the last
\* Sunday of March, 02:00 (00:00 UTC), to the last Sunday of October, 02:00
\* summer time (23:00 UTC of the Saturday)
LastSunday(y, m) == 31 - ((Weekday(DaysFromCivil(y, m, 31)) + 1) % 7)
DstStartUtc(y) == DaysFromCivil(y, 3, LastSunday(y, 3) - 2) * 86400
DstEndUtc(y) == DaysFromCivil(y, 10, LastSunday(y, 10)) * 86400 - 3600

\* utcoffset of the zone at an instant
JerusalemOffset(t) ==
    LET y == CivilFromDays(t \div 86400).y
    IN  IF DstStartUtc(y) <= t /\ t < DstEndUtc(y) THEN 10800 ELSE 7200

\* a naive datetime is taken as UTC
LocalizeAsUtc(dt) == [dt EXCEPT !.aware = TRUE, !.offset = 0]

\* pytz.timezone("Asia/Jerusalem").localize(dt), is_dst=False: the wall clock is
\* kept; a time that occurs twice (the hour before the end of summer time) or
\* never (the hour skipped at its start) gets the standard offset
Localize(dt) ==
    LET w == Seconds(dt)
    IN  [dt EXCEPT !.aware = TRUE,
                   !.offset = IF DstStartUtc(dt.y) + 10800 <= w
                                  /\ w < DstEndUtc(dt.y) + 7200
                              THEN 10800 ELSE 7200]

\* dt.astimezone(pytz.utc) and dt.astimezone(Asia/Jerusalem): the same instant on
\* another clock
AsTimezoneUtc(dt) == DateTime(TRUE, 0, Instant(dt))
AsTimezoneJerusalem(dt) ==
    DateTime(TRUE, JerusalemOffset(Instant(dt)), Instant(dt) + JerusalemOffset(Instant(dt)))

\* lines 354-363: a bound of extract_messages, brought to UTC
BoundToUtc(dt) == AsTimezoneUtc(IF dt.aware THEN dt ELSE Localize(dt))

\* wall clocks of bounds: the driver's start and end, and times around the
\* changes of offset and of year
BoundClocks ==
    { Dt(FALSE, 0, 2023, 10, 6, 0, 0, 0),
      Dt(FALSE, 0, 2025, 2, 21, 23, 59, 59),
      Dt(FALSE, 0, 2023, 3, 24, 2, 30, 0),
      Dt(FALSE, 0, 2023, 3, 24, 3, 0, 0),
      Dt(FALSE, 0, 2023, 10, 29, 1, 30, 0),
      Dt(FALSE, 0, 2023, 10, 29, 2, 0, 0),
      Dt(FALSE, 0, 2024, 1, 1, 1, 0, 0),
      Dt(FALSE, 0, 2024, 3, 29, 2, 59, 59) }

\* bounds: naive, or aware with the offset their tzinfo gives them
Bounds ==
    BoundClocks
    \cup { [c EXCEPT !.aware = TRUE, !.offset = o] :
              c \in BoundClocks, o \in {0, 7200, 10800, 0 - 18000} }

\* message dates (UTC): near the driver's start, and where the local day, week,
\* month, year or offset differs from the UTC one
MessageDates ==
    { Dt(FALSE, 0, 2023, 10, 5, 20, 59, 59),
      Dt(FALSE, 0, 2023, 10, 5, 21, 0, 0),
      Dt(FALSE, 0, 2023, 10, 7, 6, 30, 0),
      Dt(FALSE, 0, 2023, 10, 7, 21, 30, 0),
      Dt(FALSE, 0, 2023, 10, 28, 22, 59, 59),
      Dt(FALSE, 0, 2023, 10, 28, 23, 0, 0),
      Dt(FALSE, 0, 2023, 12, 31, 22, 30, 0),
      Dt(FALSE, 0, 2024, 2, 29, 21, 5, 9),
      Dt(FALSE, 0, 2024, 3, 28, 23, 59, 59),
      Dt(FALSE, 0, 2024, 3, 29, 0, 0, 0) }

\* extract_messages(group, start_date, end_date) converts its bounds
ConvertBounds ==
    /\ ~bound.set
    /\ \E b1 \in Bounds, b2 \in Bounds :
          /\ bound' = [set |-> TRUE, start |-> b1, end |-> b2]
          /\ bound_utc' = [NoBoundUtc EXCEPT !.set = TRUE, !.start = BoundToUtc(b1),
                                             !.end = BoundToUtc(b2)]
    /\ UNCHANGED <<mainVars, raw, rec, enc, schema>>

\* lines 402-405: a fetched message is compared with the bounds
CompareMessage ==
    /\ bound_utc.set
    /\ \E m \in MessageDates :
          LET msg_utc_date == [m EXCEPT !.aware = TRUE, !.offset = 0]
          IN  bound_utc' = [bound_utc EXCEPT
                              !.compared = TRUE, !.msg = msg_utc_date,
                              !.valid = InWindow(Instant(msg_utc_date),
                                                 Instant(bound_utc.start),
                                                 Instant(bound_utc.end))]
    /\ UNCHANGED <<mainVars, raw, rec, enc, bound, schema>>

\* the call is over
EndCall ==
    /\ bound_utc.compared
    /\ bound' = NoBound
    /\ bound_utc' = NoBoundUtc
    /\ UNCHANGED <<mainVars, raw, rec, enc, schema>>

---------------------------------------------------------------------------
(* The record normalizer: _process_message_with_media_types *)

\* answers of a poll in a raw message
MaxAnswers == 2

\* characters of a message text: a letter, a space, a newline, an emoji
MaxTextLen == 3
Letter == "a"
Emoji == "U+1F600"
Whitespace == {" ", "\n"}
Chars == {Letter, Emoji} \cup Whitespace

\* message.message when it is a str
Texts == UNION { [1..n -> Chars] : n \in 0..MaxTextLen }

\* raw messages, by the fields the normalizer reads:
\*   text      message.message: None (not present) or a str
\*   date      message.date, a UTC clock
\*   media     class name of message.media ("None": no media)
\*   document  message.document: "none", "plain", or "named" (it carries a
\*             DocumentAttributeFilename); mime: its mime_type is set
\*   photo     message.photo: "none", "sized" (w and h set) or "unsized"
\*   poll      media.poll: question / answer text wrapped in TextWithEntities,
\*             flags, number of answers
\*   webpage   media.webpage: "none", "WebPageEmpty" or "WebPage", and whether the
\*             page has a url, a photo, a document
\*   sender_id, reply_to_msg_id, views, forwards
\*             optional integers (not present: None or no such attribute)
\*   fwd_from  message.fwd_from: "none", "full" (every sub-field set), "bare"
\*             (from_id and date None, the others missing) or "malformed" (its
\*             date is not a datetime)
\*   entities  message.entities: "none", "typed" (entities with .type), "plain"
\*             (entities without) or "malformed" (an entity without an offset)
\*   reactions message.reactions: None, or an object whose results is a list of
\*             reaction results or (iterable FALSE) not a list at all

\* an optional integer of a raw message or of a record
NoInt == [present |-> FALSE, value |-> 0]
SomeInt(n) == [present |-> TRUE, value |-> n]

MaxReactions == 2
MaxCount == 2

\* the payload of a reaction result: a ReactionEmoji with its emoticon, or another
\* reaction type
ReactionPayloads ==
    {[kind |-> "ReactionEmoji", emoticon |-> "U+1F44D", document_id |-> 0],
     [kind |-> "ReactionCustomEmoji", emoticon |-> "", document_id |-> 7],
     [kind |-> "ReactionPaid", emoticon |-> "", document_id |-> 0]}

ReactionResults == [reaction : ReactionPayloads, count : 1..MaxCount]

NoReactions == [present |-> FALSE, iterable |-> TRUE, results |-> <<>>]

NoMedia ==
    [media |-> "None", document |-> "none", mime |-> FALSE, photo |-> "none",
     qwrapped |-> FALSE, awrapped |-> FALSE, multiple_choice |-> FALSE,
     quiz |-> FALSE, nanswers |-> 0, webpage |-> "none", url |-> FALSE,
     web_photo |-> FALSE, web_document |-> FALSE,
     text |-> [present |-> FALSE, chars |-> <<>>],
     date |-> Dt(FALSE, 0, 2023, 10, 7, 6, 30, 0),
     sender_id |-> NoInt, reply_to_msg_id |-> NoInt, views |-> NoInt,
     forwards |-> NoInt, fwd_from |-> "none", entities |-> "none",
     reactions |-> NoReactions]

RawMessages ==
    {NoMedia}
    \cup { [NoMedia EXCEPT !.media = "MessageMediaDocument", !.document = d, !.mime = mt] :
             d \in {"plain", "named"}, mt \in BOOLEAN }
    \cup { [NoMedia EXCEPT !.media = "MessageMediaDocument"] }
    \cup { [NoMedia EXCEPT !.media = "MessageMediaPhoto", !.photo = ph] :
             ph \in {"none", "sized", "unsized"} }
    \cup { [NoMedia EXCEPT !.media = "MessageMediaPoll", !.qwrapped = qw, !.awrapped = aw,
                           !.multiple_choice = mc, !.quiz = qz, !.nanswers = n] :
             qw \in BOOLEAN, aw \in BOOLEAN, mc \in BOOLEAN, qz \in BOOLEAN,
             n \in 0..MaxAnswers }
    \cup { [NoMedia EXCEPT !.media = "MessageMediaWebPage", !.webpage = "WebPageEmpty"] }
    \cup { [NoMedia EXCEPT !.media = "MessageMediaWebPage", !.webpage = "WebPage",
                           !.url = u, !.web_photo = wp, !.web_document = wd,
                           !.photo = IF wp THEN "sized" ELSE "none",
                           !.document = IF wd THEN "plain" ELSE "none"] :
             u \in BOOLEAN, wp \in BOOLEAN, wd \in BOOLEAN }
    \cup { [NoMedia EXCEPT !.media = k] : k \in {"MessageMediaGeo", "MessageMediaContact"} }
    \cup { [NoMedia EXCEPT !.text = [present |-> TRUE, chars |-> t]] : t \in Texts }
    \cup { [NoMedia EXCEPT !.date = d] : d \in MessageDates }
    \cup { [NoMedia EXCEPT !.sender_id = SomeInt(501)],
           [NoMedia EXCEPT !.reply_to_msg_id = SomeInt(41)],
           [NoMedia EXCEPT !.views = SomeInt(0)],
           [NoMedia EXCEPT !.views = SomeInt(12)],
           [NoMedia EXCEPT !.forwards = SomeInt(3)] }
    \cup { [NoMedia EXCEPT !.fwd_from = f] : f \in {"full", "bare", "malformed"} }
    \cup { [NoMedia EXCEPT !.entities = e] : e \in {"typed", "plain", "malformed"} }
    \cup { [NoMedia EXCEPT !.reactions = [present |-> TRUE, iterable |-> TRUE, results |-> rs]] :
             rs \in UNION { [1..n -> ReactionResults] : n \in 0..MaxReactions } }
    \cup { [NoMedia EXCEPT !.reactions = [present |-> TRUE, iterable |-> FALSE, results |-> <<>>]] }

\* media_attributes: a dict, keys to values
EmptyDict == [k \in {} |-> "None"]
Put(d, k, v) == [x \in (DOMAIN d) \cup {k} |-> IF x = k THEN v ELSE d[x]]

RECURSIVE PutAll(_, _)
PutAll(d, kvs) ==
    IF kvs = <<>> THEN d ELSE PutAll(Put(d, Head(kvs)[1], Head(kvs)[2]), Tail(kvs))

\* a text field of a poll: a TextWithEntities object (it has .text) or a string
TextField(wrapped, str) ==
    [hasText |-> wrapped, text |-> str,
     obj |-> IF wrapped THEN "TextWithEntities(text=" \o str \o ")" ELSE str]

\* the wrapper is kept: the object itself is stored
UnwrapNever(x) == x.obj

\* `if hasattr(x, "text"): x = x.text`
Unwrap(x) == IF x.hasText THEN x.text ELSE x.obj

HexDigits == <<"0", "1", "2", "3", "4", "5", "6", "7", "8", "9", "a", "b", "c", "d", "e", "f">>

\* bytes.hex(): two digits per byte
RECURSIVE Hex(_)
Hex(bytes) ==
    IF bytes = <<>> THEN ""
    ELSE HexDigits[(Head(bytes) \div 16) + 1] \o HexDigits[(Head(bytes) % 16) + 1]
             \o Hex(Tail(bytes))

\* the poll of a raw message: question "Ceasefire?", answers "A1", "A2", ... with
\* the options b"0", b"1", ...
PollQuestion(m) == TextField(m.qwrapped, "Ceasefire?")
PollAnswer(m, i) ==
    [text |-> TextField(m.awrapped, "A" \o ToString(i)), option |-> <<47 + i>>]

\* the answers list: {text, option.hex()} per poll answer, in the poll's order
PollAnswers(m) ==
    [i \in 1..m.nanswers |->
        [text |-> Unwrap(PollAnswer(m, i).text), option |-> Hex(PollAnswer(m, i).option)]]

\* str(message.media): the class name and its fields
StrOf(media) == media \o "()"

\* an unknown kind is dropped: no type name, no raw_object
FallbackDropsUnknown(m, s) == [media_type |-> "None", media_attributes |-> s.media_attributes]

\* lines 322-325, the else arm: the type name and the string form of the payload
Fallback(m, s) ==
    [media_type |-> m.media,
     media_attributes |-> Put(s.media_attributes, "raw_object", StrOf(m.media))]

\* lines 244-268: `if` document `elif` photo
DocumentOrPhoto(m) ==
    IF m.media = "MessageMediaDocument" /\ m.document # "none"
    THEN [media_type |-> "document",
          media_attributes |->
              LET a == PutAll(EmptyDict,
                         << <<"document_id", "document.id">>,
                            <<"mime_type", IF m.mime THEN "mime" ELSE "None">>,
                            <<"size", "size">> >>)
              IN  IF m.document = "named" THEN Put(a, "filename", "file_name") ELSE a]
    ELSE IF m.media = "MessageMediaPhoto" /\ m.photo # "none"
    THEN [media_type |-> "photo",
          media_attributes |->
              PutAll(EmptyDict,
                  << <<"photo_id", "photo.id">>,
                     <<"width", IF m.photo = "sized" THEN "w" ELSE "None">>,
                     <<"height", IF m.photo = "sized" THEN "h" ELSE "None">> >>)]
    ELSE [media_type |-> "None", media_attributes |-> EmptyDict]

\* lines 270-325: a second `if` poll `elif` webpage `else` fallback, run on what
\* the first chain left in media_type and media_attributes
PollWebPageOrFallback(m, s) ==
    IF m.media = "MessageMediaPoll"
    THEN [media_type |-> "poll",
          media_attributes |->
              PutAll(s.media_attributes,
                  << <<"question", Unwrap(PollQuestion(m))>>,
                     <<"multiple_choice", m.multiple_choice>>,
                     <<"quiz", m.quiz>>,
                     <<"answers", PollAnswers(m)>> >>)]
    ELSE IF m.media = "MessageMediaWebPage" /\ m.webpage # "none"
    THEN IF m.webpage = "WebPageEmpty"
         THEN [media_type |-> "webpage",
               media_attributes |-> Put(s.media_attributes, "raw_object", "str(web_page)")]
         ELSE [media_type |-> "webpage",
               media_attributes |->
                   LET a == PutAll(s.media_attributes,
                              << <<"url", IF m.url THEN "url" ELSE "None">>,
                                 <<"site_name", "site_name">>,
                                 <<"title", "title">>,
                                 <<"description", "description">>,
                                 <<"author", "author">>,
                                 <<"embed_url", "embed_url">>,
                                 <<"embed_type", "embed_type">> >>)
                       b == IF m.web_photo THEN Put(a, "photo_id", "photo.id") ELSE a
                   IN  IF m.web_document THEN Put(b, "document_id", "document.id") ELSE b]
    ELSE Fallback(m, s)

process_message_with_media_types(m) ==
    IF m.media = "None"
    THEN [media_type |-> "None", media_attributes |-> EmptyDict]
    ELSE PollWebPageOrFallback(m, DocumentOrPhoto(m))

\* str.split(): the maximal runs of characters that are not whitespace
RECURSIVE SplitFrom(_, _)
SplitFrom(chars, word) ==
    IF chars = <<>> THEN (IF word = <<>> THEN <<>> ELSE <<word>>)
    ELSE IF Head(chars) \in Whitespace
    THEN (IF word = <<>> THEN <<>> ELSE <<word>>) \o SplitFrom(Tail(chars), <<>>)
    ELSE SplitFrom(Tail(chars), Append(word, Head(chars)))
Split(chars) == SplitFrom(chars, <<>>)

\* emoji.emoji_list(text): one entry per emoji of the text
emoji_list(chars) == SelectSeq(chars, LAMBDA c : c = Emoji)

\* `message.message or ""`
TextContent(m) == IF m.text.present THEN m.text.chars ELSE <<>>

\* the number of separators plus one, as len(text.split(" ")) gives
WordCountBySeparators(text_content) ==
    Len(SelectSeq(text_content, LAMBDA c : c \in Whitespace)) + 1

\* `len(text_content.split()) if text_content else 0`
WordCount(text_content) == IF text_content # <<>> THEN Len(Split(text_content)) ELSE 0

\* `len(emoji.emoji_list(text_content)) if text_content else 0`
EmojiCount(text_content) ==
    IF text_content # <<>> THEN Len(emoji_list(text_content)) ELSE 0

\* strftime: %Y %m %d %H %M %S zero-padded, %z as +HHMM, %U the week of the year
\* with Sunday as the first day of the week
Pad2(n) == IF n < 10 THEN "0" \o ToString(n) ELSE ToString(n)
StrfTime(dt) ==
    ToString(dt.y) \o "-" \o Pad2(dt.mo) \o "-" \o Pad2(dt.d) \o " "
        \o Pad2(dt.h) \o ":" \o Pad2(dt.mi) \o ":" \o Pad2(dt.s)
        \o (IF dt.offset < 0 THEN "-" ELSE "+")
        \o (LET o == IF dt.offset < 0 THEN 0 - dt.offset ELSE dt.offset
            IN  Pad2(o \div 3600) \o Pad2((o % 3600) \div 60))
WeekOfYear(dt) ==
    LET days == DaysFromCivil(dt.y, dt.mo, dt.d)
        yday == days - DaysFromCivil(dt.y, 1, 1)
    IN  (yday + 7 - ((Weekday(days) + 1) % 7)) \div 7

\* utc_date = message.date.replace(tzinfo=timezone.utc)
UtcDate(m) == [m.date EXCEPT !.aware = TRUE, !.offset = 0]

\* the local date is the UTC date
LocalDateIsUtc(utc_date) == utc_date

\* local_date = utc_date.astimezone(pytz.timezone("Asia/Jerusalem"))
LocalDate(utc_date) == AsTimezoneJerusalem(utc_date)

\* an optional list or dict of a record
NoList == [present |-> FALSE, list |-> <<>>]
NoDict == [present |-> FALSE, dict |-> EmptyDict]

\* forward_info: None without a forward marker, else the five sub-fields, each None
\* when the marker does not carry it
ForwardDate == Dt(FALSE, 0, 2023, 10, 7, 6, 0, 0)
StrfTimeNoZone(dt) ==
    ToString(dt.y) \o "-" \o Pad2(dt.mo) \o "-" \o Pad2(dt.d) \o " "
        \o Pad2(dt.h) \o ":" \o Pad2(dt.mi) \o ":" \o Pad2(dt.s)
ForwardInfo(m) ==
    IF m.fwd_from = "none" THEN NoDict
    ELSE [present |-> TRUE,
          dict |-> PutAll(EmptyDict,
              <<<<"forwarded_from_id",
                  IF m.fwd_from = "full" THEN "PeerChannel(channel_id=1001)" ELSE "None">>,
                <<"forwarded_channel_id", "None">>,
                <<"forwarded_channel_post", IF m.fwd_from = "full" THEN "55" ELSE "None">>,
                <<"forwarded_post_author", IF m.fwd_from = "full" THEN "author" ELSE "None">>,
                <<"forwarded_date",
                  IF m.fwd_from = "full" THEN StrfTimeNoZone(ForwardDate) ELSE "None">>>>)]

\* str() of a reaction payload
StrOfReaction(r) ==
    IF r.kind = "ReactionCustomEmoji"
    THEN r.kind \o "(document_id=" \o ToString(r.document_id) \o ")"
    ELSE r.kind \o "()"

\* isinstance(r.reaction, ReactionEmoji)
IsReactionEmoji(r) == r.reaction.kind = "ReactionEmoji"

\* one entry of reactions
ReactionEntry(r) ==
    IF IsReactionEmoji(r)
    THEN [emoji |-> r.reaction.emoticon, count |-> r.count]
    ELSE [emoji |-> StrOfReaction(r.reaction), count |-> r.count]

ReactionsOfEmojiOnly(m) ==
    IF m.reactions.present
    THEN LET plain == SelectSeq(m.reactions.results, IsReactionEmoji)
         IN  [present |-> TRUE, list |-> [i \in 1..Len(plain) |-> ReactionEntry(plain[i])]]
    ELSE NoList

\* reactions: None without reactions, else one entry per result, in order
Reactions(m) ==
    IF m.reactions.present
    THEN [present |-> TRUE,
          list |-> [i \in 1..Len(m.reactions.results) |->
                       ReactionEntry(m.reactions.results[i])]]
    ELSE NoList

\* entities: None without entities, else one {type, offset, length} per entity
Entities(m) ==
    CASE m.entities = "typed" ->
             [present |-> TRUE,
              list |-> <<[type |-> "MessageEntityType.BOLD", offset |-> 0, length |-> 4]>>]
      [] m.entities = "plain" ->
             [present |-> TRUE,
              list |-> <<[type |-> "MessageEntityUrl", offset |-> 0, length |-> 4]>>]
      [] OTHER -> NoList

\* the reads of _process_message that raise: strftime on a forward date that is not
\* a datetime, iteration over results that is not a list, the offset of an entity
\* that has none
Raises(m) ==
    \/ m.fwd_from = "malformed"
    \/ m.reactions.present /\ ~m.reactions.iterable
    \/ m.entities = "malformed"

\* _process_message left by an exception: no record
Raised == [media_type |-> "raised", media_attributes |-> <<>>]

\* _process_message: the record of a raw message
process_message(m) ==
    LET utc_date == UtcDate(m)
        local_date == LocalDate(utc_date)
        media == process_message_with_media_types(m)
        text_content == TextContent(m)
    IN  IF Raises(m) THEN Raised
        ELSE
        [utc_date |-> StrfTime(utc_date),
         local_date |-> StrfTime(local_date),
         text |-> text_content,
         sender_id |-> m.sender_id,
         reply_to_msg_id |-> m.reply_to_msg_id,
         forwarded_from |-> ForwardInfo(m),
         forward_count |-> m.forwards,
         media_type |-> media.media_type,
         media_attributes |-> media.media_attributes,
         entities |-> Entities(m),
         views |-> m.views,
         reactions |-> Reactions(m),
         hour |-> local_date.h,
         day_of_week |-> Weekday(DaysFromCivil(local_date.y, local_date.mo, local_date.d)),
         month |-> local_date.mo,
         week_of_year |-> WeekOfYear(local_date),
         word_count |-> WordCount(text_content),
         emoji_count |-> EmojiCount(text_content)]

\* a raw message of a page is normalized by extract_messages
\* (`processed = [self._process_message(m, group) for m in valid_msgs]`); an
\* exception of _process_message leaves the comprehension, is no FloodWaitError,
\* and reaches the outer `except Exception`, which returns []
Normalize ==
    /\ rec = NoRec
    /\ rec' = process_message(raw)
    /\ IF rec' = Raised
       THEN /\ ReturnEmpty(log)
            /\ UNCHANGED <<history, dbVars, call, floods, envFault, prev, ncalls>>
       ELSE UNCHANGED mainVars
    /\ UNCHANGED <<raw, enc, bound, bound_utc, schema>>

\* the next raw message arrives, in a call of its own
NextMessage ==
    /\ rec # NoRec
    /\ raw' \in RawMessages
    /\ rec' = NoRec
    /\ outcome' = "none"
    /\ UNCHANGED <<history, dbVars, pc, call, offset_id, all_messages, floods, log,
                   returned, envFault, prev, ncalls, enc, bound, bound_utc, schema>>

---------------------------------------------------------------------------
(* The store's encoding of the structured attributes: insert_messages *)

JBool(v) == [t |-> "bool", b |-> v, n |-> 0, s |-> "", items |-> <<>>]
JNum(v) == [t |-> "num", b |-> FALSE, n |-> v, s |-> "", items |-> <<>>]
JStr(v) == [t |-> "str", b |-> FALSE, n |-> 0, s |-> v, items |-> <<>>]
JList(vs) == [t |-> "list", b |-> FALSE, n |-> 0, s |-> "",
              items |-> [i \in 1..Len(vs) |-> [k |-> "", v |-> vs[i]]]]
JDict(kvs) == [t |-> "dict", b |-> FALSE, n |-> 0, s |-> "",
               items |-> [i \in 1..Len(kvs) |-> [k |-> kvs[i][1], v |-> kvs[i][2]]]]

\* the values insert_messages is given for media_attributes, forwarded_from,
\* entities and reactions: None, the {} of a message without media, the [] of a
\* message whose reactions object has no results, and filled ones
StructuredValues ==
    { JNull,
      JDict(<<>>),
      JList(<<>>),
      JDict(<< <<"raw_object", JStr("MessageMediaGeo()")>> >>),
      JDict(<< <<"photo_id", JNum(7)>>, <<"width", JNull>>, <<"height", JNull>> >>),
      JDict(<< <<"question", JStr("Ceasefire?")>>, <<"multiple_choice", JBool(FALSE)>>,
               <<"quiz", JBool(TRUE)>>,
               <<"answers", JList(<< JDict(<< <<"text", JStr("A1")>>,
                                               <<"option", JStr("30")>> >>) >>)>> >>),
      JDict(<< <<"forwarded_from_id", JNull>>, <<"forwarded_channel_id", JNull>>,
               <<"forwarded_channel_post", JNum(12)>>,
               <<"forwarded_post_author", JNull>>,
               <<"forwarded_date", JStr("2023-10-07 06:30:00")>> >>),
      JList(<< JDict(<< <<"type", JStr("MessageEntityBold")>>, <<"offset", JNum(0)>>,
                        <<"length", JNum(4)>> >>) >>),
      JList(<< JDict(<< <<"emoji", JStr(":)")>>, <<"count", JNum(2)>> >>),
               JDict(<< <<"emoji", JStr("ReactionPaid()")>>, <<"count", JNum(1)>> >>) >>) }

\* json.dumps with its default separators
RECURSIVE JsonDumps(_)
RECURSIVE DumpItems(_, _)
DumpItems(items, keyed) ==
    IF items = <<>> THEN ""
    ELSE (IF keyed THEN "\"" \o Head(items).k \o "\": " ELSE "")
             \o JsonDumps(Head(items).v)
             \o (IF Len(items) > 1 THEN ", " ELSE "")
             \o DumpItems(Tail(items), keyed)

JsonDumps(x) ==
    CASE x.t = "null" -> "null"
      [] x.t = "bool" -> IF x.b THEN "true" ELSE "false"
      [] x.t = "num"  -> ToString(x.n)
      [] x.t = "str"  -> "\"" \o x.s \o "\""
      [] x.t = "list" -> "[" \o DumpItems(x.items, FALSE) \o "]"
      [] x.t = "dict" -> "{" \o DumpItems(x.items, TRUE) \o "}"

\* `if x`: None, False, 0, "", [] and {} are false
Truthy(x) ==
    CASE x.t = "null" -> FALSE
      [] x.t = "bool" -> x.b
      [] x.t = "num"  -> x.n # 0
      [] x.t = "str"  -> x.s # ""
      [] x.t \in {"list", "dict"} -> x.items # <<>>

\* `json.dumps(x) if x else None`
Encode(x) == IF Truthy(x) THEN SqlText(JsonDumps(x)) ELSE SqlNull

\* reading the column back: NULL is None, a text is json.loads of it
Decode(c) ==
    IF c.null THEN JNull ELSE CHOOSE v \in StructuredValues : JsonDumps(v) = c.text

\* insert_messages binds one structured attribute of a record
EncodeAttribute ==
    /\ \E x \in StructuredValues :
          enc' = [set |-> TRUE, value |-> x, stored |-> Encode(x)]
    /\ UNCHANGED <<mainVars, raw, rec, bound, bound_utc, schema>>

\* the driver before its first call, with no remote history in play
MainAtRest ==
    /\ history = <<>>
    /\ committed = <<>>
    /\ pending = <<>>
    /\ chunks = <<>>
    /\ pc = "idle"
    /\ call = NoCall
    /\ offset_id = 0
    /\ all_messages = <<>>
    /\ floods = 0
    /\ log = <<>>
    /\ outcome = "none"
    /\ returned = <<>>
    /\ envFault = FALSE
    /\ prev = [call |-> NoCall, outcome |-> "none", envFault |-> FALSE,
               committed |-> <<>>, pending |-> <<>>]
    /\ ncalls = 0

InitNorm ==
    /\ MainAtRest
    /\ raw \in RawMessages
    /\ rec = NoRec
    /\ enc = NoEnc
    /\ bound = NoBound
    /\ bound_utc = NoBoundUtc
    /\ schema = Constructed

NextNorm == Normalize \/ NextMessage \/ EncodeAttribute

SpecNorm == InitNorm /\ [][NextNorm]_vars

\* db.create_table(table_name) on the database file
CreateTable(t) ==
    /\ schema' = [db |-> create_table(schema.db, t),
                  last |-> [NoOp EXCEPT !.op = "create_table", !.table = t,
                                        !.existed = schema.db.tables[t].exists,
                                        !.before = schema.db]]
    /\ UNCHANGED <<mainVars, raw, rec, enc, bound, bound_utc>>

\* a row is inserted into an existing table
InsertRow(t) ==
    /\ schema.db.tables[t].exists
    /\ Len(schema.db.tables[t].rows) < MaxRows
    /\ schema' = [db |-> [schema.db EXCEPT !.tables[t].rows =
                             Append(@, [c \in Range(schema.db.tables[t].columns)
                                           |-> Len(@) + 1])],
                  last |-> [NoOp EXCEPT !.op = "insert", !.table = t, !.existed = TRUE,
                                        !.before = schema.db]]
    /\ UNCHANGED <<mainVars, raw, rec, enc, bound, bound_utc>>

\* db.add_column_if_not_exists(table_name, column_name, column_definition)
AddColumn(t, c) ==
    /\ LET r == add_column_if_not_exists(schema.db, t, c)
       IN  schema' = [db |-> r.db,
                      last |-> [op |-> "add_column", table |-> t, column |-> c,
                                existed |-> schema.db.tables[t].exists,
                                raised |-> r.raised, before |-> schema.db]]
    /\ UNCHANGED <<mainVars, raw, rec, enc, bound, bound_utc>>

InitSchema ==
    /\ MainAtRest
    /\ raw = NoMedia
    /\ rec = NoRec
    /\ enc = NoEnc
    /\ bound = NoBound
    /\ bound_utc = NoBoundUtc
    /\ schema = NoSchema

NextSchema ==
    \/ \E t \in TableNames : CreateTable(t)
    \/ \E t \in TableNames : InsertRow(t)
    \/ \E t \in TableNames, c \in ColumnNames : AddColumn(t, c)

SpecSchema == InitSchema /\ [][NextSchema]_vars

\* extract_messages, as far as its bounds go
NextWindow == ConvertBounds \/ CompareMessage \/ EndCall

InitWindow ==
    /\ MainAtRest
    /\ raw = NoMedia
    /\ rec = NoRec
    /\ enc = NoEnc
    /\ bound = NoBound
    /\ bound_utc = NoBoundUtc
    /\ schema = Constructed

SpecWindow == InitWindow /\ [][NextWindow]_vars

\* C10: dispatch returns the first matching kind in the order document > photo >
\* poll > webpage > fallback: a document normalizes to "document" with only the
\* document attributes, a photo to "photo" with only photo_id, width, height, and
\* the fallback arm is taken only when none of the four kinds matches.
C10_MediaDispatchPriority ==
    rec # NoRec =>
        /\ (raw.media = "MessageMediaDocument" /\ raw.document # "none") =>
              /\ rec.media_type = "document"
              /\ DOMAIN rec.media_attributes \subseteq
                     {"document_id", "mime_type", "size", "filename"}
              /\ {"document_id", "mime_type", "size"} \subseteq DOMAIN rec.media_attributes
        /\ (raw.media = "MessageMediaPhoto" /\ raw.photo # "none") =>
              /\ rec.media_type = "photo"
              /\ DOMAIN rec.media_attributes = {"photo_id", "width", "height"}
        /\ (rec.media_type = raw.media /\ raw.media # "None") =>
              ~ \/ raw.media = "MessageMediaDocument" /\ raw.document # "none"
                \/ raw.media = "MessageMediaPhoto" /\ raw.photo # "none"
                \/ raw.media = "MessageMediaPoll"
                \/ raw.media = "MessageMediaWebPage" /\ raw.webpage # "none"


\* _process_message has returned a record
Normalized == rec \notin {NoRec, Raised}

KnownMedia ==
    {"MessageMediaDocument", "MessageMediaPhoto", "MessageMediaPoll", "MessageMediaWebPage"}

\* C11: a message whose media is of a type outside document, photo, poll, webpage
\* normalizes to a record whose media_type is the payload's type name and whose
\* media_attributes is exactly {"raw_object": s}, s a non-empty string.
C11_FallbackSafety ==
    (Normalized /\ raw.media \notin KnownMedia \cup {"None"}) =>
        /\ rec.media_type = raw.media
        /\ DOMAIN rec.media_attributes = {"raw_object"}
        /\ rec.media_attributes["raw_object"] # ""

\* a normalized message with a geo point
C11_Witness ==
    /\ Normalized
    /\ raw.media = "MessageMediaGeo"
    /\ rec.media_type = "MessageMediaGeo"

\* C12: a poll normalizes to media_type "poll" with exactly the keys question
\* (the text, unwrapped), multiple_choice, quiz and answers, the answers being one
\* {text, option as hex} entry per poll answer in the poll's order.
C12_PollNormalization ==
    (Normalized /\ raw.media = "MessageMediaPoll") =>
        /\ rec.media_type = "poll"
        /\ DOMAIN rec.media_attributes = {"question", "multiple_choice", "quiz", "answers"}
        /\ rec.media_attributes["question"] = "Ceasefire?"
        /\ rec.media_attributes["multiple_choice"] = raw.multiple_choice
        /\ rec.media_attributes["quiz"] = raw.quiz
        /\ Len(rec.media_attributes["answers"]) = raw.nanswers
        /\ \A i \in 1..raw.nanswers :
              rec.media_attributes["answers"][i]
                  = [text |-> "A" \o ToString(i), option |-> "3" \o ToString(i - 1)]

\* a normalized poll with two answers whose texts are wrapped
C12_Witness ==
    /\ Normalized
    /\ raw.media = "MessageMediaPoll"
    /\ raw.qwrapped /\ raw.awrapped /\ raw.nanswers = 2
    /\ ~raw.multiple_choice /\ ~raw.quiz
    /\ rec.media_attributes["answers"][2].option = "31"


\* C13: the store's encoding keeps absence distinct from emptiness: only None is
\* stored as NULL, an empty map or list is stored as a non-NULL value, and
\* decoding the stored value gives back the value that was inserted.
C13_AbsenceDistinctFromEmptiness ==
    enc.set =>
        /\ enc.stored.null <=> enc.value = JNull
        /\ Decode(enc.stored) = enc.value

FloodEvents == {"flood", "flood_entity"}

\* C14: a rate-limit signal is never handled as a fatal error of the source:
\* whichever client call raised it (get_entity or the page request), it is followed
\* by a wait of the signalled duration and the call goes on, and extract_messages
\* never returns the empty failure result because of a rate-limit signal.
C14_RateLimitNeverFatal ==
    /\ \A i \in 1..Len(log) :
          log[i].ev \in FloodEvents =>
              /\ i < Len(log)
              /\ log[i + 1].ev = "sleep"
              /\ log[i + 1].secs = 10 * log[i].secs
    /\ (outcome = "fatal" /\ log # <<>>) => log[Len(log)].ev \notin FloodEvents

Keys(table) == { <<table[i].group_name, table[i].message_id>> : i \in 1..Len(table) }

\* keys of the call's source that the table holds now and did not hold when the
\* call began
WrittenDuringCall ==
    { k \in Keys(Table(committed, pending)) : k[1] = call.group }
        \ Keys(Table(prev.committed, prev.pending))

FailedCall == pc = "idle" /\ outcome = "fatal"

\* C15 as stated: a call that fails with a fatal error returns an empty list and
\* no row of the source written during the call is in the store.
C15_FatalZeroRows ==
    FailedCall => (returned = <<>> /\ WrittenDuringCall = {})

\* C15, amended: a call that fails with a fatal error returns an empty list,
\* whatever it had collected, and every page it inserted before the failure stays
\* durably stored.
C15_FatalReturnsEmptyKeepsPages ==
    FailedCall =>
        /\ returned = <<>>
        /\ \A i \in 1..Len(log) :
              (log[i].ev = "insert" /\ ~log[i].raised) =>
                  \A k \in 1..Len(log[i].ids) :
                      Stored(committed, call.group, log[i].ids[k])

\* a transport error of the second page request, after the first page was stored
C15_Witness ==
    /\ FailedCall
    /\ Len(log) >= 4
    /\ log[3].ev = "insert" /\ ~log[3].raised
    /\ log[Len(log)].ev = "request"
    /\ WrittenDuringCall # {}

ReturnedIds == [i \in 1..Len(returned) |-> returned[i].message_id]

\* ids of the call's insert events, in order
RECURSIVE InsertedIds(_)
InsertedIds(l) ==
    IF l = <<>> THEN <<>>
    ELSE (IF Head(l).ev = "insert" THEN Head(l).ids ELSE <<>>) \o InsertedIds(Tail(l))

\* ids of the in-window messages of the call's pages, in fetch order
RECURSIVE FetchedInWindow(_)
FetchedInWindow(l) ==
    IF l = <<>> THEN <<>>
    ELSE (IF Head(l).ev = "page"
          THEN SelectSeq(Head(l).ids,
                         LAMBDA id : call.start <= DateOf(id) /\ DateOf(id) <= call.end)
          ELSE <<>>) \o FetchedInWindow(Tail(l))

\* C16: when extract_messages completes without a fatal error, the list it
\* returns holds exactly the records it persisted during the call: one per
\* in-window message fetched, in fetch order, none returned that was not inserted
\* and none inserted that is not returned.
C16_ReturnedEqualsPersisted ==
    (pc = "idle" /\ outcome = "ok") =>
        /\ ReturnedIds = FetchedInWindow(log)
        /\ ReturnedIds = InsertedIds(log)
        /\ \A i \in 1..Len(log) : ~log[i].raised
        /\ \A i \in 1..Len(returned) :
              /\ returned[i].group_name = call.group
              /\ Stored(committed, call.group, returned[i].message_id)
        /\ WrittenDuringCall = { <<call.group, ReturnedIds[i]>> : i \in 1..Len(returned) }

\* a completed call over two pages that returned three records and left a fetched
\* message out
C16_Witness ==
    /\ pc = "idle" /\ outcome = "ok"
    /\ Len(returned) = 3
    /\ Len(InsertedIds(log)) = 3
    /\ \E i \in 1..Len(log) : log[i].ev = "page" /\ log[i].cursor # 0
    /\ \E i \in 1..Len(log) :
          log[i].ev = "page" /\ \E k \in 1..Len(log[i].ids) :
              ~(call.start <= DateOf(log[i].ids[k]) /\ DateOf(log[i].ids[k]) <= call.end)

\* the offset Asia/Jerusalem has at the instant a bound was converted to
ZoneOffsetOf(utc) == JerusalemOffset(Instant(utc))

\* the hour that is skipped when summer time starts: no instant has this wall clock
Skipped(dt) ==
    /\ DstStartUtc(dt.y) + 7200 <= Seconds(dt)
    /\ Seconds(dt) < DstStartUtc(dt.y) + 10800

BoundConverted(b, utc) ==
    /\ utc.aware /\ utc.offset = 0
    /\ b.aware => Instant(utc) = Seconds(b) - b.offset
    /\ ~b.aware =>
          /\ Seconds(b) - Instant(utc) \in {7200, 10800}
          /\ ~Skipped(b) =>
                /\ Seconds(b) - Instant(utc) = ZoneOffsetOf(utc)
                /\ AsTimezoneJerusalem(utc) = [b EXCEPT !.aware = TRUE,
                                                        !.offset = ZoneOffsetOf(utc)]
    /\ (b = Dt(FALSE, 0, 2023, 10, 6, 0, 0, 0)) =>
          utc = Dt(TRUE, 0, 2023, 10, 5, 21, 0, 0)

\* C17: a bound without a time zone is taken as a wall clock of Asia/Jerusalem,
\* never as UTC; both bounds are converted to UTC before a message date is
\* compared with them; a bound that carries a time zone keeps its instant.
C17_NaiveBoundsAreJerusalem ==
    /\ bound_utc.set =>
          /\ bound.set
          /\ BoundConverted(bound.start, bound_utc.start)
          /\ BoundConverted(bound.end, bound_utc.end)
    /\ bound_utc.compared =>
          /\ bound_utc.set
          /\ bound_utc.valid <=>
                /\ Instant(bound_utc.start) <= Instant(bound_utc.msg)
                /\ Instant(bound_utc.msg) <= Instant(bound_utc.end)

\* naive bounds 2023-10-06 00:00:00 .. 2025-02-21 23:59:59 and a message of
\* 2023-10-05 21:00:00 UTC, the first instant of the window
C17_Witness ==
    /\ bound.set /\ bound_utc.compared
    /\ bound.start = Dt(FALSE, 0, 2023, 10, 6, 0, 0, 0)
    /\ bound.end = Dt(FALSE, 0, 2025, 2, 21, 23, 59, 59)
    /\ bound_utc.end = Dt(TRUE, 0, 2025, 2, 21, 21, 59, 59)
    /\ bound_utc.msg = Dt(TRUE, 0, 2023, 10, 5, 21, 0, 0)
    /\ bound_utc.valid

\* C18: a message whose text is empty or missing normalizes to a record with text
\* "", word_count 0 and emoji_count 0; the counts of a record are always numbers.
C18_EmptyTextCounts ==
    Normalized =>
        /\ rec.word_count \in Nat /\ rec.emoji_count \in Nat
        /\ (~raw.text.present \/ raw.text.chars = <<>>) =>
              /\ rec.text = <<>>
              /\ rec.word_count = 0
              /\ rec.emoji_count = 0

\* a normalized message whose text is None
C18_Witness ==
    /\ Normalized
    /\ ~raw.text.present
    /\ rec.text = <<>> /\ rec.word_count = 0 /\ rec.emoji_count = 0

\* the hours the local clock is ahead of the message's UTC clock
HoursAhead == (rec.hour - raw.date.h) % 24

\* the local day of the message: its UTC day, or the next one
LocalDay ==
    DaysFromCivil(raw.date.y, raw.date.mo, raw.date.d)
        + (IF raw.date.h + HoursAhead >= 24 THEN 1 ELSE 0)

\* C19: hour, day_of_week (0 = Monday) and month of a record are those of the
\* message's local (Asia/Jerusalem) time, not of its UTC time: 2023-10-07 06:30:00
\* UTC gives utc_date "2023-10-07 06:30:00+0000", local_date
\* "2023-10-07 09:30:00+0300", hour 9, day_of_week 5, month 10; and always hour is
\* in 0..23, day_of_week in 0..6 and month in 1..12.
C19_LocalTimeFields ==
    Normalized =>
        /\ rec.hour \in 0..23 /\ rec.day_of_week \in 0..6 /\ rec.month \in 1..12
        /\ HoursAhead \in {2, 3}
        /\ rec.day_of_week = Weekday(LocalDay)
        /\ rec.month = CivilFromDays(LocalDay).mo
        /\ (raw.date = Dt(FALSE, 0, 2023, 10, 7, 6, 30, 0)) =>
              /\ rec.utc_date = "2023-10-07 06:30:00+0000"
              /\ rec.local_date = "2023-10-07 09:30:00+0300"
              /\ rec.hour = 9 /\ rec.day_of_week = 5 /\ rec.month = 10

\* a normalized message of 2023-12-31 22:30:00 UTC, which is a Monday of January
\* on the local clock
C19_Witness ==
    /\ Normalized
    /\ raw.date = Dt(FALSE, 0, 2023, 12, 31, 22, 30, 0)
    /\ rec.local_date = "2024-01-01 00:30:00+0200"
    /\ rec.hour = 0 /\ rec.day_of_week = 0 /\ rec.month = 1 /\ rec.week_of_year = 0

\* C20: create_table is idempotent and complete for every table name: each table
\* that was created has the primary key (group_name, message_id) and a secondary
\* index on its local_date column, and create_table for a table that exists
\* changes neither the schema nor the rows.
C20_CreateTableComplete ==
    /\ \A t \in TableNames :
          schema.db.tables[t].exists =>
              /\ schema.db.tables[t].primary_key = <<"group_name", "message_id">>
              /\ \E i \in schema.db.indexes : i.table = t /\ i.column = "local_date"
    /\ (schema.last.op = "create_table" /\ schema.last.existed) =>
          schema.db = schema.last.before

\* the table of the last schema operation, before it and after it
TableBefore == schema.last.before.tables[schema.last.table]
TableAfter == schema.db.tables[schema.last.table]

\* every column and every row of the table is as it was
TableKept ==
    /\ SubSeq(TableAfter.columns, 1, Len(TableBefore.columns)) = TableBefore.columns
    /\ TableAfter.primary_key = TableBefore.primary_key
    /\ Len(TableAfter.rows) = Len(TableBefore.rows)
    /\ \A i \in 1..Len(TableBefore.rows) :
          \A c \in Range(TableBefore.columns) :
              TableAfter.rows[i][c] = TableBefore.rows[i][c]

\* C21: add_column_if_not_exists is an additive, idempotent migration of a table:
\* when the column is absent exactly that column is added, when the column exists
\* nothing changes and no error is raised, and in both cases every existing
\* column and row of the table, and every other table and index, is unchanged.
C21_AdditiveMigration ==
    (schema.last.op = "add_column" /\ schema.last.existed) =>
        /\ ~schema.last.raised
        /\ TableKept
        /\ IF schema.last.column \in Range(TableBefore.columns)
           THEN schema.db = schema.last.before
           ELSE /\ TableAfter.columns = Append(TableBefore.columns, schema.last.column)
                /\ schema.db = [schema.last.before EXCEPT
                                   !.tables[schema.last.table] = TableAfter]

\* the column "language" was added to a table with a row, and is asked for again
C21_Witness ==
    /\ schema.last.op = "add_column" /\ schema.last.column = "language"
    /\ schema.last.existed /\ ~schema.last.raised
    /\ "language" \in Range(TableBefore.columns)
    /\ Len(TableAfter.rows) >= 1
    /\ TableAfter.rows[1]["language"] = 0

Max(S) == CHOOSE x \in S : \A y \in S : y <= x

\* the non-empty pages logged before position i, and the cursor a request at
\* position i is expected to carry: 0, or the id of the oldest message of the
\* last of these pages
PagesBefore(i) == { j \in 1..(i - 1) : log[j].ev = "page" /\ log[j].ids # <<>> }
LastId(ids) == ids[Len(ids)]
CursorAt(i) == IF PagesBefore(i) = {} THEN 0 ELSE LastId(log[Max(PagesBefore(i))].ids)

\* C22: the cursor starts at 0, every request asks for the fixed page size, and
\* the cursor changes only after a page that was fetched, was not empty and did not
\* end the loop, when it becomes the id of the page's oldest message; a page whose
\* oldest message is dated exactly start does not end the loop, and the next
\* request carries that message's id.
C22_CursorDiscipline ==
    /\ \A i \in 1..Len(log) :
          /\ log[i].ev = "request" => log[i].cursor = CursorAt(i)
          /\ log[i].ev = "page" =>
                /\ i > 1 /\ log[i - 1].ev = "request"
                /\ log[i].cursor = log[i - 1].cursor
                /\ log[i].ids = Ids(FetchPage(history, log[i].cursor, PageSize))
    /\ pc = "fetch" => offset_id = CursorAt(Len(log) + 1)
    /\ (pc = "idle" /\ outcome = "ok") =>
          LET last == log[Max({ j \in 1..Len(log) : log[j].ev = "page" })].ids
          IN  last # <<>> => DateOf(LastId(last)) # call.start

\* a second request after a page whose oldest message is dated exactly start
C22_Witness ==
    /\ Len(log) >= 5
    /\ log[2].ev = "page" /\ log[2].ids # <<>>
    /\ DateOf(LastId(log[2].ids)) = call.start
    /\ \E i \in 3..Len(log) :
          log[i].ev = "request" /\ log[i].cursor = LastId(log[2].ids) /\ log[i].cursor # 0

\* a page that ends the loop: it is empty, or its oldest message is older than start
EndsLoop(ids) == ids = <<>> \/ DateOf(LastId(ids)) < call.start

PageEvents == { j \in 1..Len(log) : log[j].ev = "page" }

\* a call that returned normally stopped at its last page, the first that ends
\* the loop
StoppedAtFirstEnd ==
    (pc = "idle" /\ outcome = "ok") =>
        /\ PageEvents # {}
        /\ \A j \in PageEvents : EndsLoop(log[j].ids) <=> j = Max(PageEvents)

\* C23: over a finite newest-first history, with finitely many rate-limit
\* signals, extract_messages eventually terminates; short of a fatal error it
\* stops at the first page that is empty or whose oldest message is strictly
\* older than start, and for no other reason.
C23_Terminates ==
    /\ [](InCall => <>(~InCall))
    /\ []StoppedAtFirstEnd

\* a call that returned normally after a rate-limit wait and three pages, the last
\* of them empty
C23_Witness ==
    /\ pc = "idle" /\ outcome = "ok"
    /\ floods > 0
    /\ Cardinality(PageEvents) = 3
    /\ log[Len(log)].ev = "page" /\ log[Len(log)].ids = <<>>

\* the pauses of the fixed delay: the sleeps that do not serve a rate-limit signal
IsPause(k) == log[k].ev = "sleep" /\ (k = 1 \/ log[k - 1].ev \notin FloodEvents)

PausesBetween(a, b) == { k \in (a + 1)..(b - 1) : IsPause(k) }

\* the next page event after position j, or 0
NextPage(j) ==
    IF \E k \in PageEvents : k > j
    THEN CHOOSE k \in PageEvents : k > j /\ \A x \in PageEvents : x > j => k <= x
    ELSE 0

\* C24: between two consecutive successful page fetches the controller pauses for
\* the fixed delay exactly once, whatever the page holds; there is no pause after
\* the page that ends the loop; a rate-limit wait of the signalled duration comes
\* on top of the pause, never in its place.
C24_FixedDelayBetweenPages ==
    /\ \A k \in 1..Len(log) : IsPause(k) => log[k].secs = RateLimitDelay
    /\ \A j \in PageEvents :
          IF NextPage(j) # 0
          THEN Cardinality(PausesBetween(j, NextPage(j))) = 1
          ELSE /\ Cardinality(PausesBetween(j, Len(log) + 1)) <= 1
               /\ (pc = "idle" /\ outcome = "ok") =>
                     PausesBetween(j, Len(log) + 1) = {}
    /\ \A k \in 1..Len(log) :
          log[k].ev = "flood" =>
              /\ k < Len(log)
              /\ log[k + 1].ev = "sleep"
              /\ log[k + 1].secs = 10 * log[k].secs

\* two pages with a rate-limit signal between them, the first page holding no
\* message of the window: one pause and one wait
C24_Witness ==
    /\ Cardinality(PageEvents) >= 2
    /\ log[2].ev = "page" /\ log[3].ev = "sleep"
    /\ \E k \in 4..Len(log) : log[k].ev = "flood" /\ k < NextPage(2)
    /\ Cardinality(PausesBetween(2, NextPage(2))) = 1

\* the messages of a page that are in the call's window, in page order
InRange(ids) ==
    SelectSeq(ids, LAMBDA id : call.start <= DateOf(id) /\ DateOf(id) <= call.end)

\* C25: processing is sequential per page: exactly the in-range messages of a
\* fetched page are handed to the store in one insert_messages call, none when the
\* page has no in-range message, and the insert is done before the termination
\* test and before the next request; the in-range messages of the final page that
\* straddles start are persisted before the loop stops.
C25_InsertPerPage ==
    /\ \A j \in 1..Len(log) :
          /\ log[j].ev = "page" =>
                IF InRange(log[j].ids) = <<>>
                THEN j = Len(log) \/ log[j + 1].ev # "insert"
                ELSE /\ j < Len(log)
                     /\ log[j + 1].ev = "insert"
                     /\ log[j + 1].ids = InRange(log[j].ids)
          /\ log[j].ev = "insert" =>
                /\ j > 1 /\ log[j - 1].ev = "page"
                /\ ~log[j].raised
                /\ \A k \in 1..Len(log[j].ids) :
                      Stored(committed, call.group, log[j].ids[k])


\* C26: normalization never drops a reaction: the record of a message with
\* reactions has exactly one {emoji, count} entry per reaction result, in the same
\* order; the emoji is the emoticon of a plain-emoji reaction and the string form
\* of the payload of any other reaction type; the count is carried over unchanged.
C26_ReactionsNeverDropped ==
    (Normalized /\ raw.reactions.present) =>
        /\ rec.reactions.present
        /\ Len(rec.reactions.list) = Len(raw.reactions.results)
        /\ \A i \in 1..Len(raw.reactions.results) :
              LET r == raw.reactions.results[i]
                  e == rec.reactions.list[i]
              IN  /\ DOMAIN e = {"emoji", "count"}
                  /\ e.count = r.count
                  /\ r.reaction.kind = "ReactionEmoji" => e.emoji = r.reaction.emoticon
                  /\ r.reaction.kind = "ReactionCustomEmoji" =>
                         e.emoji = "ReactionCustomEmoji(document_id=7)"
                  /\ r.reaction.kind = "ReactionPaid" => e.emoji = "ReactionPaid()"

C26_Witness ==
    /\ Normalized
    /\ Len(raw.reactions.results) = 2
    /\ raw.reactions.results[1].reaction.kind = "ReactionCustomEmoji"
    /\ raw.reactions.results[2].reaction.kind = "ReactionEmoji"
    /\ rec.reactions.list
         = <<[emoji |-> "ReactionCustomEmoji(document_id=7)", count |-> 2],
             [emoji |-> "U+1F44D", count |-> 1]>>


\* C27: normalization of one message is total with respect to optional fields:
\* when an optional field of the raw message (sender, reply target, forward marker
\* and its sub-fields, media sub-fields, entities, views, reactions) is missing or
\* malformed, _process_message returns a record with that field absent and does
\* not raise, and the message does not abort the extraction of its source.
C27_NormalizationTotal ==
    rec # NoRec =>
        /\ rec # Raised
        /\ outcome # "fatal"
        /\ ~raw.sender_id.present => ~rec.sender_id.present
        /\ ~raw.reply_to_msg_id.present => ~rec.reply_to_msg_id.present
        /\ ~raw.views.present => ~rec.views.present
        /\ ~raw.forwards.present => ~rec.forward_count.present
        /\ raw.fwd_from \in {"none", "malformed"} => ~rec.forwarded_from.present
        /\ raw.fwd_from = "bare" =>
              \A k \in DOMAIN rec.forwarded_from.dict : rec.forwarded_from.dict[k] = "None"
        /\ raw.entities \in {"none", "malformed"} => ~rec.entities.present
        /\ (~raw.reactions.present \/ ~raw.reactions.iterable) => ~rec.reactions.present
        /\ (raw.media = "MessageMediaDocument" /\ raw.document = "none") =>
              rec.media_type = "MessageMediaDocument"
        /\ (raw.media = "MessageMediaPhoto" /\ raw.photo = "none") =>
              rec.media_type = "MessageMediaPhoto"


\* the table as the connection sees it now, and as it was when the call began
TableNow == Table(committed, pending)
TableAtCall == Table(prev.committed, prev.pending)

\* the call runs or has returned: its connection still holds its transaction
Connected == InCall \/ (pc = "idle" /\ outcome \in {"ok", "fatal"} /\ ncalls > 0)

\* C28: records of different sources never conflict in the shared table: messages
\* with the same message_id of different sources are each stored under their own
\* (group_name, message_id) key. An insert fails only when a row of the call's own
\* source with one of its ids was in the table when the call began, never because
\* of a row of another source; an insert that succeeds stores every row of its
\* page under the call's source; and the rows of the other sources stay as they
\* were, no key being held twice.
C28_SourcesNeverConflict ==
    /\ \A i, j \in 1..Len(TableNow) :
          (i # j) => <<TableNow[i].group_name, TableNow[i].message_id>>
                       # <<TableNow[j].group_name, TableNow[j].message_id>>
    /\ Connected =>
          /\ \A j \in 1..Len(log) :
                log[j].ev = "insert" =>
                    IF log[j].raised
                    THEN \E k \in 1..Len(log[j].ids) :
                            Stored(TableAtCall, call.group, log[j].ids[k])
                    ELSE \A k \in 1..Len(log[j].ids) :
                            Stored(TableNow, call.group, log[j].ids[k])
          /\ \A i \in 1..Len(TableAtCall) :
                TableAtCall[i].group_name # call.group =>
                    /\ TableNow[i] = TableAtCall[i]
                    /\ Cardinality({ n \in 1..Len(TableNow) :
                                        TableNow[n].message_id = TableAtCall[i].message_id
                                        /\ TableNow[n].group_name = TableAtCall[i].group_name }) = 1

C28_Witness ==
    /\ pc = "idle" /\ outcome = "ok"
    /\ call.group = "g2"
    /\ \E j \in 1..Len(log) : log[j].ev = "insert" /\ ~log[j].raised /\ Len(log[j].ids) = 2
    /\ \E id \in 1..NumMsgs :
          /\ Stored(TableAtCall, "g1", id) /\ ~Stored(TableAtCall, "g2", id)
          /\ Stored(committed, "g1", id) /\ Stored(committed, "g2", id)

=============================================================================
